---- MODULE Spec2Model ----
(***************************************************************************)
(* A model of k1LoW/runblock: the runner package (command resolution,      *)
(* template expansion, command building, block execution), ParseInfoString *)
(* of the parser package and the watch loop of the command (runWatch).     *)
(*                                                                         *)
(* Strings are sequences of one-character strings, so that scanning,       *)
(* trimming and classification are computed character by character, as the *)
(* Go code computes them.                                                  *)
(***************************************************************************)
EXTENDS Integers, Sequences, FiniteSets, TLC

VARIABLES
    r,          \* the Runner: [DefaultCommand, Commands]
    blocks,     \* the []parser.CodeBlock handed to RunAll
    goos,       \* runtime.GOOS
    shell,      \* os.Getenv("SHELL")
    ctxDone,    \* the caller's context has been cancelled
    pc,         \* position of RunAll: "loop", "wait" (inside execCmd.Run), "done"
    idx,        \* loop variable i of RunAll (0-based)
    running,    \* block indexes whose child process is alive
    log,        \* history of what Run did, in order
    stdout,     \* the shared Stdout sink: block index of each chunk written
    ret,        \* the error returned by RunAll (NoErr for nil)
    tmpl,       \* ExpandTemplate: argument template
    store,      \* ExpandTemplate: argument store
    expanded,   \* ExpandTemplate: what the call returned
    bcIn,       \* BuildCommand: argument c
    bcOut,      \* BuildCommand: what the call returned
    info,       \* ParseInfoString: argument info
    parsed,     \* ParseInfoString: what the call returned
    wpc,        \* position of runWatch: "start", "run" (inside runOnce),
                \* "select", "returned"
    events,     \* runWatch: the slice events
    chEvents,   \* watcher.Events: events sent by the watcher, not yet received
    chErrors,   \* watcher.Errors: number of errors not yet received
    chClosed,   \* the watcher has closed its channels
    wctx,       \* the context of runWatch is done
    sigCh,      \* sigCh holds a SIGINT or SIGTERM
    emitted,    \* number of notifications the watcher has produced so far
    runErr,     \* what the last runOnce of runWatch returned: "none" before
                \* the first return, "nil", "error"
    wlog,       \* history of runWatch: runs started, windows closed with at
                \* least one event, closed channels seen
    wret        \* what runWatch returned

vars == <<r, blocks, goos, shell, ctxDone, pc, idx, running, log, stdout, ret,
          tmpl, store, expanded, bcIn, bcOut, info, parsed,
          wpc, events, chEvents, chErrors, chClosed, wctx, sigCh, emitted,
          runErr, wlog, wret>>

runVars == <<r, blocks, ctxDone, pc, idx, running, log, stdout, ret>>
expandVars == <<tmpl, store, expanded>>
buildVars == <<bcIn, bcOut>>
parseVars == <<info, parsed>>
watchVars == <<wpc, events, chEvents, chErrors, chClosed, wctx, sigCh, emitted,
               runErr, wlog, wret>>

(***************************************************************************)
(* Bounds                                                                  *)
(***************************************************************************)
MaxBlocks == 3      \* blocks in one RunAll call
MaxSink == 2        \* chunks written to the Stdout sink in one RunAll call
MaxFrags == 4       \* fragments concatenated into a template
MaxCmdLen == 3      \* characters of a BuildCommand argument
MaxPad == 10        \* blocks without a command in front of the block that runs
MaxInfoLen == 5     \* characters of a fence info string
MaxNotify == 3      \* events and errors the watcher produces in one runWatch

(***************************************************************************)
(* Strings                                                                 *)
(***************************************************************************)
EmptyStr == <<>>

Letters ==
    {"a","b","c","d","e","f","g","h","i","j","k","l","m",
     "n","o","p","q","r","s","t","u","v","w","x","y","z",
     "A","B","C","D","E","F","G","H","I","J","K","L","M",
     "N","O","P","Q","R","S","T","U","V","W","X","Y","Z"}

Digits == {"0","1","2","3","4","5","6","7","8","9"}

\* unicode.IsSpace on the characters the model uses
IsSpace(c) == c \in {" ", "\t", "\n", "\r", "\f"}

Slice(s, from, to) == [k \in 1..(to - from + 1) |-> s[from + k - 1]]

RECURSIVE TrimLeft(_)
TrimLeft(s) ==
    IF Len(s) > 0 /\ IsSpace(s[1]) THEN TrimLeft(Tail(s)) ELSE s

RECURSIVE TrimRight(_)
TrimRight(s) ==
    IF Len(s) > 0 /\ IsSpace(s[Len(s)])
    THEN TrimRight(Slice(s, 1, Len(s) - 1))
    ELSE s

TrimSpaceNone(s) == s

\* strings.TrimSpace
TrimSpace(s) == TrimRight(TrimLeft(s))

DigitChar(d) ==
    CASE d = 0 -> "0" [] d = 1 -> "1" [] d = 2 -> "2" [] d = 3 -> "3"
      [] d = 4 -> "4" [] d = 5 -> "5" [] d = 6 -> "6" [] d = 7 -> "7"
      [] d = 8 -> "8" [] d = 9 -> "9"

\* fmt's %d of a non-negative integer
RECURSIVE Itoa(_)
Itoa(n) ==
    IF n < 10 THEN <<DigitChar(n)>>
    ELSE Itoa(n \div 10) \o <<DigitChar(n % 10)>>

(***************************************************************************)
(* Errors                                                                  *)
(***************************************************************************)
NoErr == [kind |-> "nil"]

\* fmt.Errorf("template compilation error for '{{%s}}': %w", expr, ...)
CompileErr(expr) == [kind |-> "compile", expr |-> expr]

(***************************************************************************)
(* The expression evaluator (cel-go) on the expressions the model feeds it *)
(***************************************************************************)
StrVal(s) == [t |-> "string", v |-> s]
IntVal(n) == [t |-> "int", v |-> n]

LANG == <<"l","a","n","g">>
CONTENT == <<"c","o","n","t","e","n","t">>
INDEX == <<"i">>

\* the store key an identifier names
KeyOf(expr) ==
    CASE expr = LANG -> "lang"
      [] expr = CONTENT -> "content"
      [] expr = INDEX -> "i"
      [] OTHER -> "-"

\* inferCELType: the CEL type declared for a store value
inferCELType(value) ==
    CASE value.t = "string" -> "StringType"
      [] value.t = "int" -> "IntType"
      [] OTHER -> "AnyType"

\* createCELEnv: one declared variable per store key
createCELEnv(st) == [k \in DOMAIN st |-> inferCELType(st[k])]

IsStringLiteral(expr) ==
    /\ Len(expr) >= 2
    /\ expr[1] = "\""
    /\ expr[Len(expr)] = "\""
    /\ \A k \in 2..(Len(expr) - 1) : expr[k] # "\"" /\ expr[k] # "\n"

EvalUndeclaredNull(env, st, expr) ==
    IF KeyOf(expr) \in DOMAIN env
    THEN [ok |-> TRUE, val |-> st[KeyOf(expr)]]
    ELSE IF IsStringLiteral(expr)
    THEN [ok |-> TRUE, val |-> StrVal(Slice(expr, 2, Len(expr) - 1))]
    ELSE [ok |-> TRUE, val |-> StrVal(EmptyStr)]

\* env.Compile + env.Program + prg.Eval of one expression:
\* a declared identifier, a string literal, or an error
Eval(env, st, expr) ==
    IF KeyOf(expr) \in DOMAIN env
    THEN [ok |-> TRUE, val |-> st[KeyOf(expr)]]
    ELSE IF IsStringLiteral(expr)
    THEN [ok |-> TRUE, val |-> StrVal(Slice(expr, 2, Len(expr) - 1))]
    ELSE [ok |-> FALSE, val |-> StrVal(EmptyStr)]

\* fmt.Sprintf("%v", out.Value())
Sprint(val) == IF val.t = "int" THEN Itoa(val.v) ELSE val.v

(***************************************************************************)
(* celExprReg and ExpandTemplate                                           *)
(***************************************************************************)
\* the first position >= p holding "}" (Len(s) + 1 when there is none)
RECURSIVE RunEnd(_, _)
RunEnd(s, p) ==
    IF p > Len(s) \/ s[p] = "}" THEN p ELSE RunEnd(s, p + 1)

\* celExprReg = \{\{([^}]+)\}\} matched at position p: the position of the
\* last character of the match, 0 when there is no match at p
celExprReg(s, p) ==
    IF p + 1 <= Len(s) /\ s[p] = "{" /\ s[p + 1] = "{"
    THEN LET q == RunEnd(s, p + 2)
         IN  IF q > p + 2 /\ q + 1 <= Len(s) /\ s[q] = "}" /\ s[q + 1] = "}"
             THEN q + 1
             ELSE 0
    ELSE 0

\* the callback of ReplaceAllStringFunc on one match: the replacement text
\* and the value assigned to expandErr (NoErr when it is left alone)
ReplaceMatch(env, st, match, expandErr) ==
    LET expr == TrimSpace(Slice(match, 3, Len(match) - 2))
        res == Eval(env, st, expr)
    IN  IF res.ok
        THEN [text |-> Sprint(res.val), err |-> expandErr, expr |-> expr]
        ELSE [text |-> match, err |-> CompileErr(expr), expr |-> expr]

\* celExprReg.ReplaceAllStringFunc: leftmost non-overlapping matches from
\* position p on; acc carries the output so far, expandErr and the
\* expressions handed to the evaluator
RECURSIVE ReplaceAllStringFunc(_, _, _, _, _)
ReplaceAllStringFunc(env, st, s, p, acc) ==
    IF p > Len(s) THEN acc
    ELSE LET e == celExprReg(s, p)
         IN  IF e = 0
             THEN ReplaceAllStringFunc(env, st, s, p + 1,
                      [acc EXCEPT !.out = Append(@, s[p])])
             ELSE LET m == ReplaceMatch(env, st, Slice(s, p, e), acc.err)
                  IN  ReplaceAllStringFunc(env, st, s, e + 1,
                          [out |-> acc.out \o m.text,
                           err |-> m.err,
                           evald |-> Append(acc.evald, m.expr)])

ExpandTemplatePartial(template, st) ==
    LET env == createCELEnv(st)
        res == ReplaceAllStringFunc(env, st, template, 1,
                   [out |-> EmptyStr, err |-> NoErr, evald |-> <<>>])
    IN  res

ExpandTemplateRescan(template, st) ==
    LET env == createCELEnv(st)
        first == ReplaceAllStringFunc(env, st, template, 1,
                     [out |-> EmptyStr, err |-> NoErr, evald |-> <<>>])
        again == ReplaceAllStringFunc(env, st, first.out, 1,
                     [out |-> EmptyStr, err |-> NoErr, evald |-> first.evald])
    IN  IF first.err # NoErr
        THEN [out |-> EmptyStr, err |-> first.err, evald |-> first.evald]
        ELSE IF again.err # NoErr
        THEN [out |-> EmptyStr, err |-> again.err, evald |-> again.evald]
        ELSE again

\* ExpandTemplate: [out, err] as returned, evald = the expressions evaluated
ExpandTemplate(template, st) ==
    LET env == createCELEnv(st)
        res == ReplaceAllStringFunc(env, st, template, 1,
                   [out |-> EmptyStr, err |-> NoErr, evald |-> <<>>])
    IN  IF res.err # NoErr
        THEN [out |-> EmptyStr, err |-> res.err, evald |-> res.evald]
        ELSE res

(***************************************************************************)
(* standaloneCommandReg, detectShell and BuildCommand                      *)
(***************************************************************************)
BareChars == {"-", "_", ".", "+"} \cup Letters \cup Digits

standaloneCommandRegNoAnchor(c) ==
    Len(c) >= 1 /\ c[1] \in BareChars

\* standaloneCommandReg = ^[-_.+a-zA-Z0-9]+$
standaloneCommandReg(c) ==
    Len(c) >= 1 /\ \A k \in 1..Len(c) : c[k] \in BareChars

BINSH == <<"/","b","i","n","/","s","h">>
CMDEXE == <<"c","m","d">>

detectShellIgnoreEnv(sh) == BINSH

\* detectShell: $SHELL when it is set, /bin/sh otherwise
detectShell(sh) == IF sh # EmptyStr THEN sh ELSE BINSH

BuildCommand(c, os, sh) ==
    IF standaloneCommandReg(c)
    THEN [name |-> c, args |-> <<>>, err |-> NoErr]
    ELSE IF os = "windows"
    THEN [name |-> CMDEXE, args |-> << <<"/","c">>, c >>, err |-> NoErr]
    ELSE [name |-> detectShell(sh), args |-> << <<"-","c">>, c >>, err |-> NoErr]

(***************************************************************************)
(* Runner.Run and Runner.RunAll                                            *)
(***************************************************************************)
Nil == [nil |-> TRUE]       \* a nil map[string]string

GO == <<"g","o">>
CAT == <<"c","a","t">>

\* r.Commands[language]: the zero value "" for a missing key
MapGet(m, key) == IF key \in DOMAIN m THEN m[key] ELSE EmptyStr

ResolveCommandDefaultFirst(rn, block) ==
    IF rn.DefaultCommand # EmptyStr THEN rn.DefaultCommand
    ELSE IF block.Command # EmptyStr THEN block.Command
    ELSE IF rn.Commands # Nil THEN MapGet(rn.Commands, block.Language)
    ELSE EmptyStr

ResolveCommandFallback(rn, block) ==
    LET c1 == block.Command
        c2 == IF c1 = EmptyStr /\ rn.Commands # Nil
              THEN MapGet(rn.Commands, block.Language)
              ELSE c1
        c3 == IF c2 = EmptyStr THEN rn.DefaultCommand ELSE c2
    IN  IF c3 = EmptyStr THEN CAT ELSE c3

\* the command Run decides to use (block > language > default)
ResolveCommand(rn, block) ==
    LET c1 == block.Command
        c2 == IF c1 = EmptyStr /\ rn.Commands # Nil
              THEN MapGet(rn.Commands, block.Language)
              ELSE c1
    IN  IF c2 = EmptyStr THEN rn.DefaultCommand ELSE c2

\* the store Run builds for a block
RunStore(block, index) ==
    [lang |-> StrVal(block.Language),
     content |-> StrVal(block.Content),
     i |-> IntVal(index)]

\* os.Environ() of the parent process: runblock may itself have been started
\* by a runblock child, so the parent may hold CODEBLOCK_ variables
OsEnviron ==
    << <<"HOME", <<"/">> >>,
       <<"CODEBLOCK_INDEX", <<"7">> >>,
       <<"CODEBLOCK_CONTENT", <<"o","l","d">> >> >>

ChildEnvInheritedLast(block, index) ==
    << <<"CODEBLOCK_LANG", block.Language>>,
       <<"CODEBLOCK_CONTENT", block.Content>>,
       <<"CODEBLOCK_INDEX", Itoa(index)>> >> \o OsEnviron

\* execCmd.Env
ChildEnv(block, index) ==
    OsEnviron \o << <<"CODEBLOCK_LANG", block.Language>>,
                    <<"CODEBLOCK_CONTENT", block.Content>>,
                    <<"CODEBLOCK_INDEX", Itoa(index)>> >>

\* execCmd.Run: of the entries of Env with the same key the child is given
\* the last one only
RECURSIVE dedupEnv(_)
dedupEnv(env) ==
    IF env = <<>> THEN <<>>
    ELSE LET rest == Tail(env)
         IN  IF \E n \in DOMAIN rest : rest[n][1] = Head(env)[1]
             THEN dedupEnv(rest)
             ELSE <<Head(env)>> \o dedupEnv(rest)

ChildStdinLine(block) == block.Content \o <<"\n">>

\* execCmd.Stdin = strings.NewReader(block.Content)
ChildStdin(block) == block.Content

\* fmt.Errorf("failed to expand template: %w", err)
ExpandFailed(err) == [kind |-> "expand", cause |-> err]
\* the errors of execCmd.Run
StartErr == [kind |-> "start"]
ExitErr(code) == [kind |-> "exit", code |-> code]
CtxErr == [kind |-> "ctx"]
BlockFailedZeroBased(i, err) == [kind |-> "block", n |-> i, cause |-> err]

\* fmt.Errorf("failed to execute code block %d: %w", i+1, err)
BlockFailed(i, err) == [kind |-> "block", n |-> i + 1, cause |-> err]

CurBlock == blocks[idx + 1]
CurCmd == ResolveCommand(r, CurBlock)
CurExpand == ExpandTemplate(CurCmd, RunStore(CurBlock, idx))
CurTrimmed == TrimSpace(CurExpand.out)
CurBuild == BuildCommand(CurTrimmed, goos, shell)

InLoop == pc = "loop" /\ idx < Len(blocks)

\* what the call of ExpandTemplate at line 78 was given and returned
ExpandEvent ==
    [ev |-> "expand", block |-> idx, cmd |-> CurCmd,
     store |-> RunStore(CurBlock, idx), out |-> CurExpand.out,
     err |-> CurExpand.err, evald |-> CurExpand.evald]

\* Run returns nil at line 69: no command for the block
RunSkip ==
    /\ InLoop
    /\ CurCmd = EmptyStr
    /\ log' = Append(log, [ev |-> "skip", block |-> idx, err |-> NoErr])
    /\ idx' = idx + 1
    /\ UNCHANGED <<r, blocks, goos, shell, ctxDone, pc, running, stdout, ret>>
    /\ UNCHANGED <<expandVars, buildVars, parseVars, watchVars>>

\* Run returns the wrapped expansion error at line 80; RunAll returns
RunExpandFail ==
    /\ InLoop
    /\ CurCmd # EmptyStr
    /\ CurExpand.err # NoErr
    /\ log' = Append(log, ExpandEvent)
    /\ ret' = BlockFailed(idx, ExpandFailed(CurExpand.err))
    /\ pc' = "done"
    /\ UNCHANGED <<r, blocks, goos, shell, ctxDone, idx, running, stdout>>
    /\ UNCHANGED <<expandVars, buildVars, parseVars, watchVars>>

\* Run returns nil at line 86: the expanded command is empty after trimming
RunSkipEmpty ==
    /\ InLoop
    /\ CurCmd # EmptyStr
    /\ CurExpand.err = NoErr
    /\ CurTrimmed = EmptyStr
    /\ log' = log \o << ExpandEvent,
                        [ev |-> "skipEmpty", block |-> idx, err |-> NoErr] >>
    /\ idx' = idx + 1
    /\ UNCHANGED <<r, blocks, goos, shell, ctxDone, pc, running, stdout, ret>>
    /\ UNCHANGED <<expandVars, buildVars, parseVars, watchVars>>

Launchable ==
    /\ InLoop
    /\ CurCmd # EmptyStr
    /\ CurExpand.err = NoErr
    /\ CurTrimmed # EmptyStr

\* execCmd.Run fails in Start: the context is already done, or the program
\* cannot be started; RunAll returns
RunStartFail ==
    /\ Launchable
    /\ \E e \in (IF ctxDone THEN {CtxErr} ELSE {StartErr}) :
          /\ log' = log \o << ExpandEvent,
                              [ev |-> "startfail", block |-> idx, err |-> e] >>
          /\ ret' = BlockFailed(idx, e)
    /\ pc' = "done"
    /\ UNCHANGED <<r, blocks, goos, shell, ctxDone, idx, running, stdout>>
    /\ UNCHANGED <<expandVars, buildVars, parseVars, watchVars>>

StartEvent ==
    [ev |-> "start", block |-> idx, name |-> CurBuild.name,
     args |-> CurBuild.args, stdin |-> ChildStdin(CurBlock),
     env |-> dedupEnv(ChildEnv(CurBlock, idx)), err |-> NoErr]

RunLaunchNoWait ==
    /\ Launchable
    /\ ~ctxDone
    /\ running' = running \cup {idx}
    /\ log' = log \o << ExpandEvent, StartEvent >>
    /\ idx' = idx + 1
    /\ UNCHANGED <<r, blocks, goos, shell, ctxDone, pc, stdout, ret>>
    /\ UNCHANGED <<expandVars, buildVars, parseVars, watchVars>>

\* execCmd.Run starts the child process and waits for it
RunLaunch ==
    /\ Launchable
    /\ ~ctxDone
    /\ running' = running \cup {idx}
    /\ log' = log \o << ExpandEvent, StartEvent >>
    /\ pc' = "wait"
    /\ UNCHANGED <<r, blocks, goos, shell, ctxDone, idx, stdout, ret>>
    /\ UNCHANGED <<expandVars, buildVars, parseVars, watchVars>>

\* a running child writes a chunk to the shared Stdout sink
ChildWrite ==
    /\ Len(stdout) < MaxSink
    /\ \E b \in running : stdout' = Append(stdout, b)
    /\ UNCHANGED <<r, blocks, goos, shell, ctxDone, pc, idx, running, log, ret>>
    /\ UNCHANGED <<expandVars, buildVars, parseVars, watchVars>>

\* what execCmd.Run returns once the child has exited on its own with
\* status code: a cancellation that raced with the exit may be reported
WaitResults(code) ==
    IF code # 0 THEN {ExitErr(code)}
    ELSE IF ctxDone THEN {NoErr, CtxErr}
    ELSE {NoErr}

\* the child exits on its own; execCmd.Run returns and RunAll goes on or returns
ChildExit ==
    /\ pc = "wait"
    /\ idx \in running
    /\ \E code \in {0, 1} : \E e \in WaitResults(code) :
          /\ log' = Append(log, [ev |-> "exit", block |-> idx, code |-> code,
                                 err |-> e])
          /\ IF e = NoErr
             THEN /\ idx' = idx + 1
                  /\ pc' = "loop"
                  /\ ret' = ret
             ELSE /\ idx' = idx
                  /\ pc' = "done"
                  /\ ret' = BlockFailed(idx, e)
    /\ running' = running \ {idx}
    /\ UNCHANGED <<r, blocks, goos, shell, ctxDone, stdout>>
    /\ UNCHANGED <<expandVars, buildVars, parseVars, watchVars>>

\* the caller cancels the context while RunAll is in progress
Cancel ==
    /\ pc \in {"loop", "wait"}
    /\ ~ctxDone
    /\ ctxDone' = TRUE
    /\ UNCHANGED <<r, blocks, goos, shell, pc, idx, running, log, stdout, ret>>
    /\ UNCHANGED <<expandVars, buildVars, parseVars, watchVars>>

KillNever ==
    /\ FALSE
    /\ UNCHANGED vars

\* exec.CommandContext: the context is done while the child runs, the child
\* is killed; execCmd.Run returns the exit error and RunAll returns
Kill ==
    /\ pc = "wait"
    /\ ctxDone
    /\ idx \in running
    /\ running' = running \ {idx}
    /\ log' = Append(log, [ev |-> "exit", block |-> idx, code |-> -1,
                           err |-> ExitErr(-1)])
    /\ ret' = BlockFailed(idx, ExitErr(-1))
    /\ pc' = "done"
    /\ UNCHANGED <<r, blocks, goos, shell, ctxDone, idx, stdout>>
    /\ UNCHANGED <<expandVars, buildVars, parseVars, watchVars>>

\* the loop of RunAll is over: return nil
RunAllReturn ==
    /\ pc = "loop"
    /\ idx = Len(blocks)
    /\ pc' = "done"
    /\ UNCHANGED <<r, blocks, goos, shell, ctxDone, idx, running, log, stdout, ret>>
    /\ UNCHANGED <<expandVars, buildVars, parseVars, watchVars>>

(***************************************************************************)
(* The inputs of RunAll                                                    *)
(***************************************************************************)
SeqsUpTo(S, n) == UNION {[1..k -> S] : k \in 0..n}

LANGTPL == <<"{","{","l","a","n","g","}","}"," ">>     \* {{lang}} and a space
SHELLCMD == <<"s","h"," ","{","{","i","}","}">>         \* sh {{i}}
HALF == <<"a","{","{","i","}","}","{","{","x","}","}">> \* a{{i}}{{x}}

Languages == {EmptyStr, GO}
BlockCommands == {EmptyStr, CAT}
Contents == {<<"h","i">>}
CodeBlocks == [Language : Languages, Command : BlockCommands, Content : Contents]
Runners ==
    { [DefaultCommand |-> EmptyStr, Commands |-> Nil],
      [DefaultCommand |-> EmptyStr, Commands |-> [l \in {GO} |-> SHELLCMD]],
      [DefaultCommand |-> LANGTPL, Commands |-> [l \in {GO} |-> SHELLCMD]],
      [DefaultCommand |-> LANGTPL, Commands |-> [l \in {GO} |-> EmptyStr]],
      [DefaultCommand |-> HALF, Commands |-> Nil] }

IdleExpand == /\ tmpl = EmptyStr
              /\ store = RunStore([Language |-> EmptyStr, Content |-> EmptyStr], 0)
              /\ expanded = [out |-> EmptyStr, err |-> NoErr, evald |-> <<>>, called |-> FALSE]
IdleBuild == /\ bcIn = EmptyStr
             /\ bcOut = [name |-> EmptyStr, args |-> <<>>, err |-> NoErr, called |-> FALSE]
IdleWatch == /\ wpc = "idle"
             /\ events = <<>>
             /\ chEvents = <<>>
             /\ chErrors = 0
             /\ chClosed = FALSE
             /\ wctx = FALSE
             /\ sigCh = FALSE
             /\ emitted = 0
             /\ runErr = "none"
             /\ wlog = <<>>
             /\ wret = "none"
IdleParse == /\ info = EmptyStr
             /\ parsed = [language |-> EmptyStr, command |-> EmptyStr, called |-> FALSE]
IdleRun == /\ r = [DefaultCommand |-> EmptyStr, Commands |-> Nil]
           /\ blocks = <<>>
           /\ ctxDone = FALSE
           /\ pc = "idle"
           /\ idx = 0
           /\ running = {}
           /\ log = <<>>
           /\ stdout = <<>>
           /\ ret = NoErr

Init ==
    /\ r \in Runners
    /\ blocks \in SeqsUpTo(CodeBlocks, MaxBlocks)
    /\ goos = "linux"
    /\ shell \in {EmptyStr}
    /\ ctxDone = FALSE
    /\ pc = "loop"
    /\ idx = 0
    /\ running = {}
    /\ log = <<>>
    /\ stdout = <<>>
    /\ ret = NoErr
    /\ IdleExpand
    /\ IdleBuild
    /\ IdleParse
    /\ IdleWatch

Next ==
    \/ RunSkip
    \/ RunExpandFail
    \/ RunSkipEmpty
    \/ RunStartFail
    \/ RunLaunch
    \/ ChildWrite
    \/ ChildExit
    \/ Cancel
    \/ Kill
    \/ RunAllReturn

Spec == Init /\ [][Next]_vars

\* the runtime kills the child once the context is done
FairSpec == Spec /\ WF_vars(Kill)

(***************************************************************************)
(* RunAll over a long document: blocks that have no command of their own,  *)
(* then one block with any language, command and content                   *)
(***************************************************************************)
PadBlock == [Language |-> EmptyStr, Command |-> EmptyStr, Content |-> <<"p">>]

WideContents ==
    { EmptyStr, <<"h","i">>, <<"h","i","\n">>, <<"\n","h","i","\n","\n">>, <<" ">> }

WideBlocks == [Language : Languages, Command : BlockCommands, Content : WideContents]

WideInit ==
    /\ r \in Runners
    /\ \E n \in 0..MaxPad : \E b \in WideBlocks :
          blocks = [k \in 1..n |-> PadBlock] \o <<b>>
    /\ goos = "linux"
    /\ shell \in {EmptyStr}
    /\ ctxDone = FALSE
    /\ pc = "loop"
    /\ idx = 0
    /\ running = {}
    /\ log = <<>>
    /\ stdout = <<>>
    /\ ret = NoErr
    /\ IdleExpand
    /\ IdleBuild
    /\ IdleParse
    /\ IdleWatch

WideSpec == WideInit /\ [][Next]_vars

(***************************************************************************)
(* ExpandTemplate as a function: templates built from fragments            *)
(***************************************************************************)
Fragments ==
    { <<"{","{">>, <<"}","}">>, <<"}">>, <<" ">>, <<"i">>,
      <<"\"","}","\"">>,
      <<"{","{","x","}","}">>, <<"{","{","y","}","}">> }

RECURSIVE Concat(_)
Concat(ss) == IF ss = <<>> THEN EmptyStr ELSE Head(ss) \o Concat(Tail(ss))

Templates == {Concat(fs) : fs \in SeqsUpTo(Fragments, MaxFrags)}

Stores ==
    { RunStore([Language |-> GO, Content |-> <<"h","i">>], 0),
      RunStore([Language |-> EmptyStr, Content |-> <<"{","{","i","}","}">>], 12) }

ExpandInit ==
    /\ tmpl \in Templates
    /\ store \in Stores
    /\ expanded = [out |-> EmptyStr, err |-> NoErr, evald |-> <<>>, called |-> FALSE]
    /\ goos = "linux"
    /\ shell = EmptyStr
    /\ IdleRun
    /\ IdleBuild
    /\ IdleParse
    /\ IdleWatch

\* one call ExpandTemplate(tmpl, store)
CallExpandTemplate ==
    /\ ~expanded.called
    /\ LET res == ExpandTemplate(tmpl, store)
       IN  expanded' = [out |-> res.out, err |-> res.err, evald |-> res.evald,
                        called |-> TRUE]
    /\ UNCHANGED <<tmpl, store, goos, shell, runVars, buildVars, parseVars,
                   watchVars>>

ExpandNext == CallExpandTemplate

ExpandSpec == ExpandInit /\ [][ExpandNext]_vars

(***************************************************************************)
(* ExpandTemplate over blocks whose language and content hold spans        *)
(***************************************************************************)
SpanFragments ==
    { <<"{","{","c","o","n","t","e","n","t","}","}">>,
      <<"{","{"," ","l","a","n","g"," ","}","}">>,
      <<"{","{","i","}","}">>,
      <<"{","{">>, <<"}","}">>, <<" ">> }

SpanTemplates ==
    { Concat(fs) : fs \in SeqsUpTo(SpanFragments, MaxFrags) }

SpanStores ==
    { RunStore([Language |-> <<"{","{","x","}","}">>,
                Content |-> <<"a","{","{","l","a","n","g","}","}">>], 3),
      RunStore([Language |-> GO, Content |-> <<"{","{","i","}","}">>], 12) }

SpanInit ==
    /\ tmpl \in SpanTemplates
    /\ store \in SpanStores
    /\ expanded = [out |-> EmptyStr, err |-> NoErr, evald |-> <<>>, called |-> FALSE]
    /\ goos = "linux"
    /\ shell = EmptyStr
    /\ IdleRun
    /\ IdleBuild
    /\ IdleParse
    /\ IdleWatch

SpanSpec == SpanInit /\ [][ExpandNext]_vars

(***************************************************************************)
(* BuildCommand as a function                                              *)
(***************************************************************************)
CmdChars == {"a", "Z", "9", "-", "_", ".", "+", " ", "|", "/", "\n", "'"}

BuildInit ==
    /\ bcIn \in SeqsUpTo(CmdChars, MaxCmdLen)
    /\ goos \in {"linux", "darwin", "windows"}
    /\ shell \in {EmptyStr, <<"/","z">>}
    /\ bcOut = [name |-> EmptyStr, args |-> <<>>, err |-> NoErr, called |-> FALSE]
    /\ IdleRun
    /\ IdleExpand
    /\ IdleParse
    /\ IdleWatch

\* one call BuildCommand(bcIn)
CallBuildCommand ==
    /\ ~bcOut.called
    /\ LET res == BuildCommand(bcIn, goos, shell)
       IN  bcOut' = [name |-> res.name, args |-> res.args, err |-> res.err,
                     called |-> TRUE]
    /\ UNCHANGED <<bcIn, goos, shell, runVars, expandVars, parseVars,
                   watchVars>>

BuildNext == CallBuildCommand

BuildSpec == BuildInit /\ [][BuildNext]_vars

(***************************************************************************)
(* ParseInfoString as a function                                           *)
(***************************************************************************)
\* strings.Index(s, " "), 0-based, -1 when s holds no space
RECURSIVE IndexSpace(_, _)
IndexSpace(s, p) ==
    IF p > Len(s) THEN -1
    ELSE IF s[p] = " " THEN p - 1
    ELSE IndexSpace(s, p + 1)

ParseInfoStringRawCommand(i) ==
    LET t == TrimSpace(i)
        ix == IndexSpace(t, 1)
    IN  IF t = EmptyStr THEN [language |-> EmptyStr, command |-> EmptyStr]
        ELSE IF ix < 0 THEN [language |-> t, command |-> EmptyStr]
        ELSE [language |-> Slice(t, 1, ix),
              command |-> Slice(t, ix + 2, Len(t))]

\* ParseInfoString: language and command of a fence info string
ParseInfoString(i) ==
    LET t == TrimSpace(i)
        ix == IndexSpace(t, 1)
    IN  IF t = EmptyStr THEN [language |-> EmptyStr, command |-> EmptyStr]
        ELSE IF ix < 0 THEN [language |-> t, command |-> EmptyStr]
        ELSE [language |-> Slice(t, 1, ix),
              command |-> TrimSpace(Slice(t, ix + 2, Len(t)))]

InfoChars == {"a", "b", " ", "\t"}

ParseInit ==
    /\ info \in SeqsUpTo(InfoChars, MaxInfoLen)
    /\ parsed = [language |-> EmptyStr, command |-> EmptyStr, called |-> FALSE]
    /\ goos = "linux"
    /\ shell = EmptyStr
    /\ IdleRun
    /\ IdleExpand
    /\ IdleBuild
    /\ IdleWatch

\* one call ParseInfoString(info)
CallParseInfoString ==
    /\ ~parsed.called
    /\ LET res == ParseInfoString(info)
       IN  parsed' = [language |-> res.language, command |-> res.command,
                      called |-> TRUE]
    /\ UNCHANGED <<info, goos, shell, runVars, expandVars, buildVars,
                   watchVars>>

ParseNext == CallParseInfoString

ParseSpec == ParseInit /\ [][ParseNext]_vars

(***************************************************************************)
(* runWatch                                                                *)
(***************************************************************************)
\* paths are sequences of elements
AbsPath == <<"d", "doc.md">>
Dir(path) == SubSeq(path, 1, Len(path) - 1)
Base(path) == path[Len(path)]
fileName == Base(AbsPath)

\* the events the watcher reports for the watched directory: Name and Op
\* (Op is the set of the bits that are set)
FsEvents ==
    { [Name |-> Dir(AbsPath) \o <<"doc.md">>, Op |-> {"Write"}],
      [Name |-> Dir(AbsPath) \o <<"doc.md">>, Op |-> {"Create"}],
      [Name |-> Dir(AbsPath) \o <<"doc.md">>, Op |-> {"Remove"}],
      [Name |-> Dir(AbsPath) \o <<"tmp">>, Op |-> {"Write", "Chmod"}] }

FileModifiedAnyFile(evs, name) ==
    \E n \in DOMAIN evs : "Write" \in evs[n].Op \/ "Create" \in evs[n].Op

\* the loop over events at the close of a window: fileModified
FileModified(evs, name) ==
    \E n \in DOMAIN evs :
        /\ Base(evs[n].Name) = name
        /\ ("Write" \in evs[n].Op \/ "Create" \in evs[n].Op)

WatchEnv == <<chEvents, chErrors, chClosed, wctx, sigCh, emitted>>
NotWatch == <<goos, shell, runVars, expandVars, buildVars, parseVars>>
Others == <<runErr, NotWatch>>

\* runWatch up to the first runOnce: the watcher is created and added
WatchStart ==
    /\ wpc = "start"
    /\ wpc' = "run"
    /\ wlog' = Append(wlog, [ev |-> "run", initial |-> TRUE])
    /\ UNCHANGED <<events, wret, WatchEnv, Others>>

\* runWatch returns before the loop: filepath.Abs, fsnotify.NewWatcher or
\* watcher.Add failed
WatchSetupFail ==
    /\ wpc = "start"
    /\ wpc' = "returned"
    /\ wret' = "setup error"
    /\ UNCHANGED <<events, wlog, WatchEnv, Others>>

RunOnceReturnFatal ==
    /\ wpc = "run"
    /\ runErr' \in {"nil", "error"}
    /\ IF runErr' = "error"
       THEN /\ wpc' = "returned"
            /\ wret' = "run error"
            /\ events' = <<>>
            /\ chEvents' = <<>>
            /\ chErrors' = 0
            /\ chClosed' = TRUE
            /\ UNCHANGED <<wlog, wctx, sigCh, emitted, NotWatch>>
       ELSE /\ wpc' = "select"
            /\ UNCHANGED <<events, wlog, wret, WatchEnv, NotWatch>>

RunOnceReturnDrain ==
    /\ wpc = "run"
    /\ runErr' \in {"nil", "error"}
    /\ wpc' = "select"
    /\ chEvents' = <<>>
    /\ UNCHANGED <<events, wlog, wret, chErrors, chClosed, wctx, sigCh, emitted, NotWatch>>

\* runOnce returns, with an error or without: the error is printed and the
\* loop goes on
RunOnceReturn ==
    /\ wpc = "run"
    /\ runErr' \in {"nil", "error"}
    /\ wpc' = "select"
    /\ UNCHANGED <<events, wlog, wret, WatchEnv, NotWatch>>

\* runWatch returns from the loop: events goes out of scope and the
\* deferred watcher.Close() closes the channels of the watcher
Return(val) ==
    /\ wpc' = "returned"
    /\ wret' = val
    /\ events' = <<>>
    /\ chEvents' = <<>>
    /\ chErrors' = 0
    /\ chClosed' = TRUE

SelectCtxDoneNil ==
    /\ wpc = "select"
    /\ wctx
    /\ Return("nil")
    /\ UNCHANGED <<wlog, wctx, sigCh, emitted, Others>>

\* case <-ctx.Done()
SelectCtxDone ==
    /\ wpc = "select"
    /\ wctx
    /\ Return("ctx.Err()")
    /\ UNCHANGED <<wlog, wctx, sigCh, emitted, Others>>

\* case <-sigCh
SelectSignal ==
    /\ wpc = "select"
    /\ sigCh
    /\ sigCh' = FALSE
    /\ Return("nil")
    /\ UNCHANGED <<wlog, wctx, emitted, Others>>

\* case event, ok := <-watcher.Events with ok
SelectEvent ==
    /\ wpc = "select"
    /\ ~chClosed
    /\ chEvents # <<>>
    /\ events' = Append(events, Head(chEvents))
    /\ chEvents' = Tail(chEvents)
    /\ UNCHANGED <<wpc, wlog, wret, chErrors, chClosed, wctx, sigCh, emitted, Others>>

\* case event, ok := <-watcher.Events with !ok
SelectEventsClosed ==
    /\ wpc = "select"
    /\ chClosed
    /\ Return("nil")
    /\ wlog' = Append(wlog, [ev |-> "closed", ch |-> "Events"])
    /\ UNCHANGED <<wctx, sigCh, emitted, Others>>

\* case err, ok := <-watcher.Errors with ok: the error is printed
SelectError ==
    /\ wpc = "select"
    /\ ~chClosed
    /\ chErrors > 0
    /\ chErrors' = chErrors - 1
    /\ UNCHANGED <<wpc, events, wlog, wret, chEvents, chClosed, wctx, sigCh, emitted, Others>>

\* case err, ok := <-watcher.Errors with !ok
SelectErrorsClosed ==
    /\ wpc = "select"
    /\ chClosed
    /\ Return("nil")
    /\ wlog' = Append(wlog, [ev |-> "closed", ch |-> "Errors"])
    /\ UNCHANGED <<wctx, sigCh, emitted, Others>>

\* no other case of the select is ready: a case that is ready when the
\* select is entered is taken before a timer of one second can fire
Quiet ==
    /\ ~wctx
    /\ ~sigCh
    /\ ~chClosed
    /\ chEvents = <<>>
    /\ chErrors = 0

TimeoutKeepEvents ==
    /\ wpc = "select"
    /\ Quiet
    /\ IF FileModified(events, fileName)
       THEN /\ wlog' = wlog \o << [ev |-> "window", batch |-> events],
                                  [ev |-> "run", initial |-> FALSE] >>
            /\ wpc' = "run"
       ELSE /\ wlog' = IF events = <<>> THEN wlog
                       ELSE Append(wlog, [ev |-> "window", batch |-> events])
            /\ wpc' = wpc
    /\ UNCHANGED <<events, wret, WatchEnv, Others>>

\* case <-time.After(time.Second): the window closes, events is emptied and
\* runOnce is called when the file was modified
Timeout ==
    /\ wpc = "select"
    /\ Quiet
    /\ events' = <<>>
    /\ IF FileModified(events, fileName)
       THEN /\ wlog' = wlog \o << [ev |-> "window", batch |-> events],
                                  [ev |-> "run", initial |-> FALSE] >>
            /\ wpc' = "run"
       ELSE /\ wlog' = IF events = <<>> THEN wlog
                       ELSE Append(wlog, [ev |-> "window", batch |-> events])
            /\ wpc' = wpc
    /\ UNCHANGED <<wret, WatchEnv, Others>>

Watching == wpc \in {"run", "select"}

\* the watcher sends an event for a file of the watched directory
FsEvent ==
    /\ Watching
    /\ ~chClosed
    /\ emitted < MaxNotify
    /\ emitted' = emitted + 1
    /\ \E e \in FsEvents :
          chEvents' = Append(chEvents, [id |-> emitted + 1, Name |-> e.Name,
                                        Op |-> e.Op])
    /\ UNCHANGED <<wpc, events, wlog, wret, chErrors, chClosed, wctx, sigCh, Others>>

\* the watcher sends an error
WatcherError ==
    /\ Watching
    /\ ~chClosed
    /\ emitted < MaxNotify
    /\ emitted' = emitted + 1
    /\ chErrors' = chErrors + 1
    /\ UNCHANGED <<wpc, events, wlog, wret, chEvents, chClosed, wctx, sigCh, Others>>

\* the watcher stops and closes Events and Errors
WatcherClose ==
    /\ Watching
    /\ ~chClosed
    /\ chClosed' = TRUE
    /\ UNCHANGED <<wpc, events, wlog, wret, chEvents, chErrors, wctx, sigCh, emitted, Others>>

\* the context handed to runWatch is cancelled
WatchCancel ==
    /\ Watching
    /\ ~wctx
    /\ wctx' = TRUE
    /\ UNCHANGED <<wpc, events, wlog, wret, chEvents, chErrors, chClosed, sigCh, emitted, Others>>

\* SIGINT or SIGTERM is delivered to sigCh (capacity 1)
Signal ==
    /\ Watching
    /\ ~sigCh
    /\ sigCh' = TRUE
    /\ UNCHANGED <<wpc, events, wlog, wret, chEvents, chErrors, chClosed, wctx, emitted, Others>>

WatchInit ==
    /\ wpc = "start"
    /\ events = <<>>
    /\ chEvents = <<>>
    /\ chErrors = 0
    /\ chClosed = FALSE
    /\ wctx = FALSE
    /\ sigCh = FALSE
    /\ emitted = 0
    /\ runErr = "none"
    /\ wlog = <<>>
    /\ wret = "none"
    /\ goos = "linux"
    /\ shell = EmptyStr
    /\ IdleRun
    /\ IdleExpand
    /\ IdleBuild
    /\ IdleParse

\* one step of the select statement
Select ==
    \/ SelectCtxDone
    \/ SelectSignal
    \/ SelectEvent
    \/ SelectEventsClosed
    \/ SelectError
    \/ SelectErrorsClosed
    \/ Timeout

WatchNext ==
    \/ WatchStart
    \/ WatchSetupFail
    \/ RunOnceReturn
    \/ SelectCtxDone
    \/ SelectSignal
    \/ SelectEvent
    \/ SelectEventsClosed
    \/ SelectError
    \/ SelectErrorsClosed
    \/ Timeout
    \/ FsEvent
    \/ WatcherError
    \/ WatcherClose
    \/ WatchCancel
    \/ Signal

WatchSpec == WatchInit /\ [][WatchNext]_vars

\* the select statement takes a case that is ready, and runOnce returns
FairWatchSpec == WatchSpec /\ WF_vars(Select) /\ WF_vars(RunOnceReturn)

(***************************************************************************)
(* runWatch with a watcher that does not fall silent                       *)
(***************************************************************************)
\* the watcher sends one more error, beyond the notifications counted in
\* emitted: an error leaves nothing in the state of the loop once it is
\* received, so the watcher may go on sending them for ever
WatcherErrorAgain ==
    /\ Watching
    /\ ~chClosed
    /\ chErrors = 0
    /\ chErrors' = 1
    /\ UNCHANGED <<wpc, events, wlog, wret, chEvents, chClosed, wctx, sigCh, emitted, Others>>

StormNext ==
    \/ WatchNext
    \/ WatcherErrorAgain

\* select picks at random among the cases that are ready, so a case that
\* stays ready is taken; the timer case is ready only after a second in
\* which no other case was taken
StormSpec ==
    /\ WatchInit /\ [][StormNext]_vars
    /\ WF_vars(Select) /\ WF_vars(RunOnceReturn)
    /\ WF_vars(SelectCtxDone) /\ WF_vars(SelectSignal)
    /\ WF_vars(SelectEvent) /\ WF_vars(SelectError)
    /\ WF_vars(SelectEventsClosed) /\ WF_vars(SelectErrorsClosed)

(***************************************************************************)
(* Properties                                                              *)
(***************************************************************************)
BlockIdx == 0..(Len(blocks) - 1)
EventsOf(kind, b) == {n \in DOMAIN log : log[n].ev = kind /\ log[n].block = b}
Started(b) == EventsOf("start", b) # {}
Completed(b) == \E n \in EventsOf("exit", b) : log[n].code = 0
IsBlank(s) == \A k \in 1..Len(s) : s[k] \in {" ", "\t", "\n", "\r", "\f"}

\* the per-language command of a block, "" when there is no map or no entry
PerLanguage(b) ==
    IF r.Commands # Nil /\ blocks[b + 1].Language \in DOMAIN r.Commands
    THEN r.Commands[blocks[b + 1].Language]
    ELSE EmptyStr

Candidates(b) == <<blocks[b + 1].Command, PerLanguage(b), r.DefaultCommand>>

FirstNonEmpty(cs) ==
    IF \A k \in DOMAIN cs : cs[k] = EmptyStr THEN EmptyStr
    ELSE cs[CHOOSE k \in DOMAIN cs :
                /\ cs[k] # EmptyStr
                /\ \A m \in 1..(k - 1) : cs[m] = EmptyStr]

\* C1: the command Run hands to template expansion is the first non-empty
\* of the explicit command, the per-language command and the default
\* command of the block, and Run skips the block exactly when all are empty.
C1_Precedence ==
    \A n \in DOMAIN log :
        /\ log[n].ev = "expand" =>
              /\ log[n].cmd = FirstNonEmpty(Candidates(log[n].block))
              /\ log[n].cmd # EmptyStr
        /\ log[n].ev = "skip" =>
              FirstNonEmpty(Candidates(log[n].block)) = EmptyStr

\* one run in which the explicit command beat the two others, the
\* per-language command beat the default, and the default was used last
C1_Witness ==
    /\ r.DefaultCommand # EmptyStr
    /\ \E n1, n2, n3 \in DOMAIN log :
          /\ log[n1].ev = "expand" /\ log[n2].ev = "expand" /\ log[n3].ev = "expand"
          /\ Candidates(log[n1].block)[1] # EmptyStr
          /\ Candidates(log[n1].block)[2] # EmptyStr
          /\ log[n1].cmd = Candidates(log[n1].block)[1]
          /\ Candidates(log[n2].block)[1] = EmptyStr
          /\ Candidates(log[n2].block)[2] # EmptyStr
          /\ log[n2].cmd = Candidates(log[n2].block)[2]
          /\ Candidates(log[n3].block)[1] = EmptyStr
          /\ Candidates(log[n3].block)[2] = EmptyStr
          /\ log[n3].cmd = r.DefaultCommand

\* the block for which Run returned an error
FailedAt(k) == \E n \in DOMAIN log : log[n].block = k /\ log[n].err # NoErr

\* the error Run returned for block k
RunError(k) ==
    LET n == CHOOSE m \in DOMAIN log : log[m].block = k /\ log[m].err # NoErr
    IN  IF log[n].ev = "expand"
        THEN [kind |-> "expand", cause |-> log[n].err]
        ELSE log[n].err

FailFast(k) ==
    /\ \A j \in BlockIdx : j > k => ~Started(j) /\ EventsOf("expand", j) = {}
    /\ pc = "done"
    /\ ret.kind = "block"
    /\ ret.n = k + 1
    /\ ret.cause = RunError(k)

\* C2 as stated: when Run fails for block k, every earlier block with a
\* non-empty command has run its process to completion, no later block is
\* started, and RunAll returns an error naming k+1 that wraps Run's error.
C2_Original ==
    \A k \in BlockIdx :
        FailedAt(k) =>
            /\ \A j \in 0..(k - 1) :
                  FirstNonEmpty(Candidates(j)) # EmptyStr => Completed(j)
            /\ FailFast(k)

\* the expanded command of block j was not empty after trimming
ExpandedNonEmpty(j) ==
    \E n \in EventsOf("expand", j) : log[n].err = NoErr /\ ~IsBlank(log[n].out)

\* C2 amended: when Run fails for block k, every earlier block whose command
\* expanded to a string that is non-empty after trimming has run its process
\* to completion, no later block is started, and RunAll returns an error
\* naming k+1 that wraps Run's error.
C2_FailFast ==
    \A k \in BlockIdx :
        FailedAt(k) =>
            /\ \A j \in 0..(k - 1) :
                  /\ ExpandedNonEmpty(j) => Completed(j)
                  /\ FirstNonEmpty(Candidates(j)) # EmptyStr =>
                        EventsOf("expand", j) # {}
            /\ FailFast(k)

\* the second of three blocks failed after the first ran to completion
C2_Witness ==
    /\ Len(blocks) = 3
    /\ FailedAt(1)
    /\ Completed(0)
    /\ ret.n = 2

\* the expressions of evald that fail to compile or evaluate
Failing(st, evald) ==
    {k \in DOMAIN evald : ~Eval(createCELEnv(st), st, evald[k]).ok}

FirstOf(S) == CHOOSE k \in S : \A m \in S : k <= m

\* C3: when more than one span fails, ExpandTemplate returns the error of
\* the leftmost failing span and evaluates no span to the right of it.
C3_FirstErrorWins ==
    (expanded.called /\ Cardinality(Failing(store, expanded.evald)) >= 2) =>
        LET first == FirstOf(Failing(store, expanded.evald))
        IN  /\ expanded.err = [kind |-> "compile", expr |-> expanded.evald[first]]
            /\ Len(expanded.evald) = first

\* C4: when a span of the resolved command fails, ExpandTemplate returns the
\* empty string with an error, Run starts no process for the block and
\* RunAll returns an error for it.
C4_NoHalfExpanded ==
    \A n \in DOMAIN log :
        (/\ log[n].ev = "expand"
         /\ Failing(RunStore(blocks[log[n].block + 1], log[n].block),
                    log[n].evald) # {}) =>
            /\ log[n].out = EmptyStr
            /\ log[n].err # NoErr
            /\ ~Started(log[n].block)
            /\ log[n].block \notin running
            /\ pc = "done"
            /\ ret.kind = "block"
            /\ ret.n = log[n].block + 1

\* a command whose first span expands and whose second span fails
C4_Witness ==
    \E n \in DOMAIN log :
        /\ log[n].ev = "expand"
        /\ Len(log[n].evald) = 2
        /\ Failing(RunStore(blocks[log[n].block + 1], log[n].block),
                   log[n].evald) = {2}
        /\ pc = "done"

\* the position of the first "}}" at or after p, 0 when there is none
RECURSIVE NextClose(_, _)
NextClose(s, p) ==
    IF p + 1 > Len(s) THEN 0
    ELSE IF s[p] = "}" /\ s[p + 1] = "}" THEN p
    ELSE NextClose(s, p + 1)

\* the spans of a template as the specification delimits them: each "{{"
\* with the next "}}" after it, left to right, not overlapping; the result
\* is the sequence of their trimmed contents
RECURSIVE SpanContents(_, _)
SpanContents(s, p) ==
    IF p + 1 > Len(s) THEN <<>>
    ELSE IF s[p] = "{" /\ s[p + 1] = "{"
    THEN LET q == NextClose(s, p + 2)
         IN  IF q = 0 THEN <<>>
             ELSE <<TrimSpace(Slice(s, p + 2, q - 1))>> \o SpanContents(s, q + 2)
    ELSE SpanContents(s, p + 1)

\* C5: every span "{{" ... next "}}" of the template is handed, trimmed, to
\* the evaluator, whatever its content (a single "}", nothing at all).
C5_EverySpanEvaluated ==
    expanded.called => expanded.evald = SpanContents(tmpl, 1)

AllEmpty(j) == \A k \in 1..3 : Candidates(j)[k] = EmptyStr

\* C6: a block with no explicit, per-language or default command is skipped:
\* no expansion, no process, nothing written to the sink, no error for it.
C6_SkipNoCommand ==
    \A j \in BlockIdx :
        AllEmpty(j) =>
            /\ EventsOf("expand", j) = {}
            /\ ~Started(j)
            /\ j \notin running
            /\ \A w \in DOMAIN stdout : stdout[w] # j
            /\ ~FailedAt(j)
            /\ ret.kind = "block" => ret.n # j + 1
            /\ (pc = "done" /\ ret = NoErr) => EventsOf("skip", j) # {}

\* Run skipped a block without command and RunAll went on to run a later one
C6_Witness ==
    \E j \in BlockIdx :
        /\ AllEmpty(j)
        /\ EventsOf("skip", j) # {}
        /\ \E j2 \in BlockIdx : j2 > j /\ Completed(j2)

\* Run returned for block j with an expansion that trims to nothing
ExpandedBlank(j) ==
    \E n \in EventsOf("expand", j) : log[n].err = NoErr /\ IsBlank(log[n].out)

\* C7: a block whose command expands to nothing but whitespace starts no
\* process and gives no error, and RunAll goes on: when it returns nil,
\* every block whose expansion was not blank has been executed.
C7_SkipEmptyExpansion ==
    /\ \A j \in BlockIdx :
          ExpandedBlank(j) =>
              /\ ~Started(j)
              /\ j \notin running
              /\ ~FailedAt(j)
              /\ idx > j
              /\ ret.kind = "block" => ret.n # j + 1
    /\ (pc = "done" /\ ret = NoErr) =>
          \A j \in BlockIdx :
              /\ EventsOf("expand", j) # {} \/ EventsOf("skip", j) # {}
              /\ ExpandedNonEmpty(j) => Completed(j)

\* a block was skipped for its blank expansion and a later one was executed
C7_Witness ==
    \E j, j2 \in BlockIdx :
        /\ ExpandedBlank(j)
        /\ j2 > j
        /\ ExpandedNonEmpty(j2)
        /\ Completed(j2)
        /\ pc = "done"
        /\ ret = NoErr

StartEvents == SelectSeq(log, LAMBDA e : e.ev = "start")

\* C8: processes are started in increasing block position, one per block at
\* most, each only after the previously started one has exited; at most one
\* child is alive.
C8_Sequential ==
    /\ Cardinality(running) <= 1
    /\ \A n, m \in DOMAIN log :
          (n < m /\ log[n].ev = "start" /\ log[m].ev = "start") =>
              /\ log[n].block < log[m].block
              /\ \E x \in (n + 1)..(m - 1) :
                    log[x].ev = "exit" /\ log[x].block = log[n].block
    /\ \A b \in running : Started(b) /\ EventsOf("exit", b) = {}

\* three processes were started one after the other
C8_Witness ==
    /\ Len(StartEvents) = 3
    /\ running # {}

\* C9: once the context is cancelled no process is started any more and what
\* completed blocks did stays; a child running at that time is terminated.
C9_Cancellation ==
    /\ [][ctxDone =>
            /\ running' \subseteq running
            /\ SelectSeq(log', LAMBDA e : e.ev = "start") = StartEvents
            /\ Len(stdout') >= Len(stdout)
            /\ SubSeq(stdout', 1, Len(stdout)) = stdout
            /\ SubSeq(log', 1, Len(log)) = log]_vars
    /\ ((ctxDone /\ running # {}) ~> (running = {}))

\* the context was cancelled while a child ran, the child was killed, and
\* blocks with a command were still waiting
C9_Witness ==
    /\ ctxDone
    /\ pc = "done"
    /\ \E n \in DOMAIN log : log[n].ev = "exit" /\ log[n].code = -1
    /\ \E j \in BlockIdx : j > idx /\ ~AllEmpty(j)
    /\ \E j \in BlockIdx : j < idx /\ Completed(j)

ClaimClass ==
    {"A","B","C","D","E","F","G","H","I","J","K","L","M","N","O","P","Q","R",
     "S","T","U","V","W","X","Y","Z",
     "a","b","c","d","e","f","g","h","i","j","k","l","m","n","o","p","q","r",
     "s","t","u","v","w","x","y","z",
     "0","1","2","3","4","5","6","7","8","9", "_", ".", "+", "-"}

IsBareResult == bcOut.name = bcIn /\ bcOut.args = <<>>

IsShellResult ==
    /\ bcOut.name \in {CMDEXE, BINSH, shell}
    /\ Len(bcOut.args) = 2
    /\ bcOut.args[1] \in {<<"/","c">>, <<"-","c">>}
    /\ bcOut.args[2] = bcIn

\* C10: BuildCommand returns the string itself with no argument exactly when
\* the string is non-empty and made of [A-Za-z0-9_.+-] only, routes any
\* other string through the shell, and never returns an error.
C10_BareOrShell ==
    bcOut.called =>
        /\ bcOut.err = NoErr
        /\ IsBareResult <=>
              (bcIn # EmptyStr /\ \A k \in DOMAIN bcIn : bcIn[k] \in ClaimClass)
        /\ IsBareResult \/ IsShellResult

\* a bare name made of a letter, a digit and a punctuation of the class
C10_Witness ==
    /\ bcOut.called
    /\ IsBareResult
    /\ Len(bcIn) = 3
    /\ bcIn[1] \in Letters /\ bcIn[2] \in Digits /\ bcIn[3] \in {"-", "_", ".", "+"}

\* C11: a command routed through the shell is run as cmd /c <command> on
\* Windows and as $SHELL -c <command> elsewhere, /bin/sh standing in for an
\* empty SHELL; the command is one argument, unmodified.
C11_ShellRouting ==
    (bcOut.called /\ ~(bcIn # EmptyStr /\ \A k \in DOMAIN bcIn : bcIn[k] \in ClaimClass)) =>
        IF goos = "windows"
        THEN /\ bcOut.name = <<"c","m","d">>
             /\ bcOut.args = << <<"/","c">>, bcIn >>
        ELSE /\ bcOut.name = (IF shell = <<>> THEN <<"/","b","i","n","/","s","h">>
                                              ELSE shell)
             /\ bcOut.args = << <<"-","c">>, bcIn >>

\* a pipeline with a quote, off Windows, with SHELL set
C11_Witness ==
    /\ bcOut.called
    /\ goos = "darwin"
    /\ shell = <<"/","z">>
    /\ bcIn = <<"a", "|", "'">>
    /\ bcOut.name = <<"/","z">>
    /\ Len(bcOut.args) = 2

(***************************************************************************)
(* The child's environment and standard input                              *)
(***************************************************************************)
\* the values the child sees for a variable
ValuesOf(env, key) == {env[n][2] : n \in {m \in DOMAIN env : env[m][1] = key}}

ClaimDigit(c) ==
    CASE c = "0" -> 0 [] c = "1" -> 1 [] c = "2" -> 2 [] c = "3" -> 3
      [] c = "4" -> 4 [] c = "5" -> 5 [] c = "6" -> 6 [] c = "7" -> 7
      [] c = "8" -> 8 [] c = "9" -> 9 [] OTHER -> -1

RECURSIVE DecimalValue(_)
DecimalValue(s) ==
    IF s = <<>> THEN 0
    ELSE 10 * DecimalValue(SubSeq(s, 1, Len(s) - 1)) + ClaimDigit(s[Len(s)])

\* s is the decimal numeral of n, without sign and without leading zeros
IsDecimalOf(s, n) ==
    /\ Len(s) >= 1
    /\ \A k \in DOMAIN s : ClaimDigit(s[k]) >= 0
    /\ Len(s) > 1 => s[1] # "0"
    /\ DecimalValue(s) = n

CodeblockVars == {"CODEBLOCK_LANG", "CODEBLOCK_CONTENT", "CODEBLOCK_INDEX"}

\* C12: every launched child is given the parent's environment and, for
\* CODEBLOCK_LANG, CODEBLOCK_CONTENT and CODEBLOCK_INDEX, the language, the
\* content and the decimal 0-based index of the block being run and no
\* other value, whatever the parent held under these names.
C12_ChildEnvironment ==
    \A n \in DOMAIN log :
        log[n].ev = "start" =>
            LET e == log[n]
                b == blocks[e.block + 1]
            IN  /\ \A m \in DOMAIN OsEnviron :
                      OsEnviron[m][1] \notin CodeblockVars =>
                          ValuesOf(e.env, OsEnviron[m][1]) = {OsEnviron[m][2]}
                /\ ValuesOf(e.env, "CODEBLOCK_LANG") = {b.Language}
                /\ ValuesOf(e.env, "CODEBLOCK_CONTENT") = {b.Content}
                /\ \E v \in ValuesOf(e.env, "CODEBLOCK_INDEX") :
                      /\ ValuesOf(e.env, "CODEBLOCK_INDEX") = {v}
                      /\ IsDecimalOf(v, e.block)

\* the parent holds CODEBLOCK_INDEX=7 and the block at index 10 is launched
C12_Witness ==
    /\ \E m \in DOMAIN OsEnviron : OsEnviron[m][1] = "CODEBLOCK_INDEX"
    /\ \E n \in DOMAIN log :
          /\ log[n].ev = "start"
          /\ log[n].block = 10
          /\ <<"CODEBLOCK_INDEX", <<"1","0">> >> \in {log[n].env[m] : m \in DOMAIN log[n].env}
          /\ blocks[11].Language # EmptyStr

\* the source of the command of block b: its own command, the per-language
\* command or the default command
CommandSource(b) ==
    IF blocks[b + 1].Command # EmptyStr THEN "explicit"
    ELSE IF PerLanguage(b) # EmptyStr THEN "language"
    ELSE "default"

\* C13: the standard input of every launched child is the content of its
\* block, character for character, whichever source gave the command.
C13_StdinIsContent ==
    \A n \in DOMAIN log :
        log[n].ev = "start" =>
            /\ CommandSource(log[n].block) \in {"explicit", "language", "default"}
            /\ Len(log[n].stdin) = Len(blocks[log[n].block + 1].Content)
            /\ \A k \in DOMAIN log[n].stdin :
                  log[n].stdin[k] = blocks[log[n].block + 1].Content[k]

\* a block launched by the default command whose content begins and ends
\* with newlines
C13_Witness ==
    \E n \in DOMAIN log :
        /\ log[n].ev = "start"
        /\ CommandSource(log[n].block) = "default"
        /\ log[n].stdin = <<"\n","h","i","\n","\n">>

(***************************************************************************)
(* The shared output sink                                                  *)
(***************************************************************************)
\* the chunks block b wrote, in the order it wrote them
ChunksOf(b) == SelectSeq(stdout, LAMBDA w : w = b)

RECURSIVE InDocumentOrder(_)
\* the outputs of blocks b, b+1, ... one after the other
InDocumentOrder(b) ==
    IF b >= Len(blocks) THEN <<>>
    ELSE ChunksOf(b) \o InDocumentOrder(b + 1)

\* C14: the children of one RunAll call write to one sink, one child at a
\* time: a chunk of a later block never precedes a chunk of an earlier one,
\* and after a successful RunAll the sink holds the outputs of the executed
\* blocks in document order.
C14_SinkOrder ==
    /\ Cardinality(running) <= 1
    /\ \A a, b \in DOMAIN stdout : a < b => stdout[a] <= stdout[b]
    /\ \A a \in DOMAIN stdout : Started(stdout[a])
    /\ (pc = "done" /\ ret = NoErr) =>
          /\ stdout = InDocumentOrder(0)
          /\ \A a \in DOMAIN stdout : Completed(stdout[a])

\* a successful RunAll of three blocks: the first and the last wrote, the
\* one between them ran nothing
C14_Witness ==
    /\ pc = "done"
    /\ ret = NoErr
    /\ Len(blocks) = 3
    /\ stdout = <<0, 2>>
    /\ ~Started(1)

(***************************************************************************)
(* Substitution                                                            *)
(***************************************************************************)
\* every span of the template, as SpanContents delimits them, has a value
SpansHaveValues ==
    \A k \in DOMAIN SpanContents(tmpl, 1) :
        Eval(createCELEnv(store), store, SpanContents(tmpl, 1)[k]).ok

\* the canonical string of the value of an expression
Canonical(expr) ==
    LET val == Eval(createCELEnv(store), store, expr).val
    IN  IF val.t = "int"
        THEN CHOOSE d \in {Itoa(val.v)} : IsDecimalOf(d, val.v)
        ELSE val.v

\* the template from position p on with every span replaced by the canonical
\* string of its value, and the characters outside spans kept
RECURSIVE Substituted(_, _)
Substituted(s, p) ==
    IF p > Len(s) THEN <<>>
    ELSE IF p + 1 <= Len(s) /\ s[p] = "{" /\ s[p + 1] = "{"
    THEN LET q == NextClose(s, p + 2)
         IN  IF q = 0 THEN Slice(s, p, Len(s))
             ELSE Canonical(TrimSpace(Slice(s, p + 2, q - 1))) \o Substituted(s, q + 2)
    ELSE <<s[p]>> \o Substituted(s, p + 1)

\* C15: when every span has a value, ExpandTemplate returns no error and the
\* template with each span, delimiters included, replaced by the canonical
\* string of its value and every other character kept; a template without a
\* span comes back unchanged.
C15_Substitution ==
    (expanded.called /\ SpansHaveValues) =>
        /\ expanded.err = NoErr
        /\ expanded.out = Substituted(tmpl, 1)
        /\ SpanContents(tmpl, 1) = <<>> => expanded.out = tmpl

(***************************************************************************)
(* The scope of a block                                                    *)
(***************************************************************************)
\* an identifier that is none of lang, content, i
IsOtherIdentifier(expr) ==
    /\ Len(expr) >= 1
    /\ expr[1] \in Letters \cup {"_"}
    /\ \A k \in DOMAIN expr : expr[k] \in Letters \cup Digits \cup {"_"}
    /\ expr \notin { <<"l","a","n","g">>, <<"c","o","n","t","e","n","t">>, <<"i">>,
                     <<"t","r","u","e">>, <<"f","a","l","s","e">>, <<"n","u","l","l">> }

Min(S) == CHOOSE k \in S : \A m \in S : k <= m
Max(S) == CHOOSE k \in S : \A m \in S : k >= m

\* the positions of info that hold no whitespace, between from and to
Inked(from, to) == {k \in from..to : ~IsBlank(<<info[k]>>)}

\* what the claim says of info: split at the first space of the trimmed text
InfoLanguageCommand ==
    IF Inked(1, Len(info)) = {} THEN <<EmptyStr, EmptyStr>>
    ELSE LET a == Min(Inked(1, Len(info)))
             b == Max(Inked(1, Len(info)))
             spaces == {k \in a..b : info[k] = " "}
         IN  IF spaces = {} THEN <<SubSeq(info, a, b), EmptyStr>>
             ELSE <<SubSeq(info, a, Min(spaces) - 1),
                    SubSeq(info, Min(Inked(Min(spaces) + 1, b)), b)>>

\* C20: ParseInfoString trims the info string and splits it at its first
\* space: the text before it is the language, the rest, trimmed, is the
\* command; without a space all of it is the language; a blank info string
\* gives two empty strings. The language holds no space and the command
\* neither starts nor ends with whitespace.
C20_ParseInfoString ==
    parsed.called =>
        /\ <<parsed.language, parsed.command>> = InfoLanguageCommand
        /\ \A k \in DOMAIN parsed.language : parsed.language[k] # " "
        /\ parsed.command # <<>> =>
              /\ ~IsBlank(<<parsed.command[1]>>)
              /\ ~IsBlank(<<parsed.command[Len(parsed.command)]>>)

\* a language followed by a space, a tab and the command
C20_Witness ==
    /\ parsed.called
    /\ info = <<" ", "a", " ", "\t", "b">>
    /\ parsed.language = <<"a">>
    /\ parsed.command = <<"b">>

(***************************************************************************)
(* Watch mode                                                              *)
(***************************************************************************)
Windows == {n \in DOMAIN wlog : wlog[n].ev = "window"}
Reruns == {n \in DOMAIN wlog : wlog[n].ev = "run" /\ ~wlog[n].initial}
\* a run was started when window n closed
RerunAfter(n) == (n + 1) \in DOMAIN wlog /\ wlog[n + 1].ev = "run"
Ids(evs) == {evs[k].id : k \in DOMAIN evs}
ClosedIds == UNION {Ids(wlog[n].batch) : n \in Windows}

\* C17: the events collected in one window start one run, at the close of
\* the window, however many of them are writes or creations of the watched
\* file (and no run when none is); an event of a closed window is in no
\* later window and not in the collection of the open one.
C17_Coalesced ==
    /\ \A n \in Reruns : (n - 1) \in Windows
    /\ \A n \in Windows :
          (\E k \in DOMAIN wlog[n].batch :
               /\ wlog[n].batch[k].Name = <<"d", "doc.md">>
               /\ wlog[n].batch[k].Op \in {{"Write"}, {"Create"}})
            => (wlog[n + 1].ev = "run" /\ ~wlog[n + 1].initial)
    /\ \A m, n \in Windows :
          m < n => Ids(wlog[m].batch) \cap Ids(wlog[n].batch) = {}
    /\ \A n \in Windows : Cardinality(Ids(wlog[n].batch)) = Len(wlog[n].batch)
    /\ ClosedIds \cap Ids(events) = {}
    /\ Cardinality(Reruns) <= Cardinality(Windows)

\* two writes of the watched file in one window started one run, and a
\* later window has closed
C17_Witness ==
    \E m, n \in Windows :
        /\ m < n
        /\ Len(wlog[m].batch) = 2
        /\ \A k \in 1..2 : /\ wlog[m].batch[k].Name = <<"d", "doc.md">>
                           /\ wlog[m].batch[k].Op = {"Write"}
        /\ RerunAfter(m)
        /\ Cardinality(Reruns) = 1

\* an event that can start a run: a write or a creation of the watched file
Triggers(e) ==
    /\ e.Name[Len(e.Name)] = "doc.md"
    /\ e.Op \cap {"Write", "Create"} # {}

\* the triggering events that are sent or collected and in no closed window
Unserved ==
    {chEvents[k].id : k \in {j \in DOMAIN chEvents : Triggers(chEvents[j])}}
        \cup {events[k].id : k \in {j \in DOMAIN events : Triggers(events[j])}}

\* C18: an event that arrives while runOnce is in progress does not end or
\* restart the run and is not collected before the run is over; no event is
\* dropped while runWatch is in the loop; the window that takes a triggering
\* event starts a run; and a triggering event that is pending during a run
\* is taken by a window, unless runWatch returns first.
C18_RunNotInterrupted ==
    /\ [][ (wpc = "run" /\ chEvents' # chEvents) =>
              (wpc' = "run" /\ wlog' = wlog /\ events' = events) ]_vars
    /\ [][ wpc = "run" => events' = events ]_vars
    /\ [][ wpc' # "returned" =>
              (Ids(chEvents) \cup Ids(events)) \subseteq
                  (Ids(chEvents') \cup Ids(events') \cup
                   UNION {Ids(wlog'[n].batch) :
                            n \in {m \in DOMAIN wlog' : wlog'[m].ev = "window"}}) ]_vars
    /\ [](\A n \in Windows :
              (\E k \in DOMAIN wlog[n].batch : Triggers(wlog[n].batch[k])) =>
                  RerunAfter(n))
    /\ (wpc = "run" /\ Unserved # {}) ~> (wpc = "returned" \/ Unserved = {})

\* a write of the watched file arrives while a re-run is in progress
C18_Witness ==
    /\ wpc = "run"
    /\ wlog[Len(wlog)].ev = "run"
    /\ ~wlog[Len(wlog)].initial
    /\ \E k \in DOMAIN chEvents : Triggers(chEvents[k])

\* C19 as stated: a window starts a run exactly when it holds an event for
\* the watched file, of whatever type.
C19_Original ==
    \A n \in Windows :
        RerunAfter(n) <=>
            \E k \in DOMAIN wlog[n].batch :
                wlog[n].batch[k].Name[Len(wlog[n].batch[k].Name)] = "doc.md"

\* C19: a window starts a run exactly when it holds a write or a creation
\* of the watched file; events for other files and other events for the
\* watched file start no run.
C19_WriteOrCreate ==
    \A n \in Windows :
        RerunAfter(n) <=> \E k \in DOMAIN wlog[n].batch : Triggers(wlog[n].batch[k])

\* a window with a removal of the watched file and a write of another file
\* started no run; a window with a creation of the watched file started one
C19_Witness ==
    \E m, n \in Windows :
        /\ ~RerunAfter(m)
        /\ \E k \in DOMAIN wlog[m].batch :
              /\ wlog[m].batch[k].Name = <<"d", "doc.md">>
              /\ wlog[m].batch[k].Op = {"Remove"}
        /\ \E k \in DOMAIN wlog[m].batch : wlog[m].batch[k].Name = <<"d", "tmp">>
        /\ RerunAfter(n)
        /\ Len(wlog[n].batch) = 1
        /\ wlog[n].batch[1].Op = {"Create"}

\* C21: once a write or a creation of the watched file has been collected,
\* a run starts (or runWatch returns), whatever the watcher goes on sending.
C21_FixedWindow ==
    (wpc = "select" /\ \E k \in DOMAIN events : Triggers(events[k]))
        ~> (wpc \in {"run", "returned"})

(***************************************************************************)
(* One pass                                                                *)
(***************************************************************************)
\* sub occurs in s as a run of consecutive characters
IsSubstring(sub, s) ==
    \E p \in 1..(Len(s) - Len(sub) + 1) :
        \A k \in 1..Len(sub) : s[p + k - 1] = sub[k]

\* the number of positions of s at which "{{" starts
OpenBraces(s) ==
    Cardinality({p \in 1..(Len(s) - 1) : s[p] = "{" /\ s[p + 1] = "{"})

\* expr, with blanks around it or not, stands in s between "{{" and "}}"
StandsInSpan(expr, s) ==
    \E p, q \in 1..Len(s) :
        /\ p >= 3 /\ q + 2 <= Len(s) /\ p <= q
        /\ s[p - 2] = "{" /\ s[p - 1] = "{"
        /\ s[q + 1] = "}" /\ s[q + 2] = "}"
        /\ \E a \in p..q : \E b \in (a - 1)..q :
              /\ SubSeq(s, a, b) = expr
              /\ \A k \in (p..(a - 1)) \cup ((b + 1)..q) : IsBlank(<<s[k]>>)

\* C22: ExpandTemplate scans the template once: every expression it
\* evaluates stands in a span of the template itself, there are no more of
\* them than the template has "{{", and where lang or content is
\* evaluated the language or the content of the block is in the output as
\* it is, spans included.
C22_SinglePass ==
    expanded.called =>
        /\ Len(expanded.evald) <= OpenBraces(tmpl)
        /\ \A k \in DOMAIN expanded.evald : StandsInSpan(expanded.evald[k], tmpl)
        /\ expanded.err = [kind |-> "nil"] =>
              /\ (\E k \in DOMAIN expanded.evald :
                      expanded.evald[k] = <<"c","o","n","t","e","n","t">>)
                    => IsSubstring(store.content.v, expanded.out)
              /\ (\E k \in DOMAIN expanded.evald :
                      expanded.evald[k] = <<"l","a","n","g">>)
                    => IsSubstring(store.lang.v, expanded.out)

\* the template names content and lang, the content is a{{lang}} and the
\* language is {{x}}: both are in the output as they are
C22_Witness ==
    /\ expanded.called
    /\ tmpl = <<"{","{","c","o","n","t","e","n","t","}","}", " ",
                "{","{"," ","l","a","n","g"," ","}","}">>
    /\ store.lang.v = <<"{","{","x","}","}">>
    /\ expanded.err = [kind |-> "nil"]
    /\ expanded.out = <<"a","{","{","l","a","n","g","}","}", " ",
                        "{","{","x","}","}">>

InitialRuns == {n \in DOMAIN wlog : wlog[n].ev = "run" /\ wlog[n].initial}

\* C23: past the set-up, the first thing runWatch does is the one initial
\* run, and nothing is collected before that run has returned; a run that
\* returns, with an error or without, leaves runWatch in the loop with
\* what the watcher has sent; and after a failed run the window that holds
\* a write or a creation of the watched file starts a run.
C23_FailingRunKeepsLoop ==
    /\ []((wpc \in {"run", "select"} \/ wlog # <<>>) =>
              (InitialRuns = {1} /\ wret # "setup error"))
    /\ []((events # <<>> \/ Windows # {}) => runErr # "none")
    /\ [][ wpc = "run" =>
              /\ wpc' \in {"run", "select"}
              /\ wret' = wret
              /\ Ids(chEvents) \subseteq Ids(chEvents') ]_vars
    /\ [][ (wpc = "run" /\ runErr' = "error" /\ runErr' # runErr) =>
              wpc' = "select" ]_vars
    /\ [][ (/\ wpc = "select"
            /\ runErr = "error"
            /\ \E k \in DOMAIN events : Triggers(events[k])
            /\ events' # events
            /\ wpc' # "returned") =>
               \/ Len(events') > Len(events)
               \/ /\ wpc' = "run"
                  /\ wlog'[Len(wlog')] = [ev |-> "run", initial |-> FALSE] ]_vars

\* the initial run failed, and a later write of the watched file has started
\* a run
C23_Witness ==
    /\ wpc = "run"
    /\ runErr = "error"
    /\ Len(wlog) = 3
    /\ wlog[2].ev = "window"
    /\ wlog[3] = [ev |-> "run", initial |-> FALSE]

\* a request to stop is pending: the context is cancelled, a signal has
\* arrived or the watcher has closed its channels
StopRequested == wctx \/ sigCh \/ chClosed

\* C24 as stated: once the context is cancelled runWatch returns the error
\* of the context, and after a signal or a closed channel it returns nil.
C24_Original ==
    (wpc = "returned" /\ wret # "setup error") =>
        /\ wctx => wret = "ctx.Err()"
        /\ (\E n \in DOMAIN wlog : wlog[n].ev = "closed") => wret = "nil"

\* C24: with a request to stop pending the loop starts no run and runWatch
\* returns; it returns the error of the context only when the context is
\* cancelled and nil only after a signal or a closed channel, and when one
\* kind of request alone is pending the value is the one of that kind; a
\* run in progress is never cut short, the request is served once that run
\* has returned.
C24_StopsWhenAsked ==
    /\ [][ (wpc = "select" /\ StopRequested) => wpc' # "run" ]_vars
    /\ [][ (wpc = "select" /\ wpc' = "returned") =>
              /\ StopRequested
              /\ wret' \in {"ctx.Err()", "nil"}
              /\ wret' = "ctx.Err()" => wctx
              /\ wret' = "nil" => (sigCh \/ chClosed)
              /\ (wctx /\ ~sigCh /\ ~chClosed) => wret' = "ctx.Err()"
              /\ ~wctx => wret' = "nil" ]_vars
    /\ [][ wpc = "run" => wpc' \in {"run", "select"} ]_vars
    /\ (wpc \in {"run", "select"} /\ StopRequested) ~> (wpc = "returned")

\* the context was cancelled after a re-run had been started, no signal
\* has arrived, and runWatch has returned the error of the context
C24_Witness ==
    /\ wpc = "returned"
    /\ wret = "ctx.Err()"
    /\ wctx
    /\ ~sigCh
    /\ Reruns # {}

====
